---- MODULE Spec2Model ----
(***************************************************************************)
(* A model of the paper-download scripts of the repository:                *)
(*   download_papers.py   main / process_row / fetch_pdf_via_doi /         *)
(*                        stream_download / append_log                     *)
(*   3-sci-hub-download.py  download_paper / log_error on a thread pool    *)
(* The network, the file system and the browser are the environment: every *)
(* response is a nondeterministic choice over the outcomes the code tells  *)
(* apart.                                                                  *)
(***************************************************************************)
EXTENDS Integers, Sequences, FiniteSets, TLC

(* ------------------------------ bounds --------------------------------- *)

\* The longest sheet slice main walks through.
MaxRows == 2

\* The deepest nesting of ".sNN" supplementary suffixes of a DOI.
MaxSupp == 1

\* The most rows of the Sci-Hub sheet (tasks submitted to the pool).
MaxTasks == 2

(* ------------------------- program constants --------------------------- *)

MAX_CONTENT_MB == 200

\* chunk_size of iter_content
ChunkSize == 8192

\* looks_like_pdf reads buf[:1024]
HeadBytes == 1024

\* the final size check: st_size > 1024
MinPdfBytes == 1024

\* len(b"%PDF-")
MagicLen == 5

\* retries=3 of download_paper
Retries == 3

\* len(scihub_mirrors)
NumMirrors == 4

\* ThreadPoolExecutor(max_workers=12)
MaxWorkers == 12

None == "None"

\* Python truthiness of an Optional[str].
Truthy(s) == s # None /\ s # ""

(* ------------------------------- DOIs ---------------------------------- *)
(* A DOI string is kept by what the regular expressions of normalize_doi   *)
(* tell apart: its form ("doi" matches 10.NNNN/..., "junk" is other text,  *)
(* "punct" is text made of the wrapping characters normalize_doi strips,   *)
(* "empty" is ""), whether it carries a doi: / https://doi.org/ prefix,    *)
(* and how many ".sNN" supplementary suffixes end it.                      *)

EmptyDoi == [form |-> "empty", pfx |-> FALSE, supp |-> 0]

PunctDoi == [form |-> "punct", pfx |-> FALSE, supp |-> 0]

JunkDoi == [form |-> "junk", pfx |-> FALSE, supp |-> 0]

Doi(pfx, supp) == [form |-> "doi", pfx |-> pfx, supp |-> supp]

normalize_doi(d) ==
    IF d.form \in {"empty", "punct"} THEN EmptyDoi ELSE [d EXCEPT !.pfx = FALSE]

is_probably_doi(d) == d # EmptyDoi /\ normalize_doi(d).form = "doi"

\* re.search(r"\.s\d{2,4}$", doi_norm)
IsSupplementary(d) == d.supp > 0

\* re.sub(r"\.s\d{2,4}$", "", doi_norm)
ParentDoi(d) == IF d.supp > 0 THEN [d EXCEPT !.supp = d.supp - 1] ELSE d

DoiStr(d) ==
    CASE d.form = "empty" -> ""
      [] d.form = "punct" -> "()"
      [] d.form = "junk" -> "junk"
      [] OTHER -> (IF d.pfx THEN "doi:" ELSE "") \o "10.1000/x"
                  \o (IF d.supp > 0 THEN ".s" \o ToString(d.supp) ELSE "")

(* ---------------------------- file names ------------------------------- *)
(* An index is a sequence of characters; "L" stands for a run of legal     *)
(* characters longer than the file system's name limit.                    *)

IllegalChars == {"\\", "/", ":", "*", "?", "<", ">", "|"}

RECURSIVE SubIllegal(_)
\* re.sub(r"[\\/:*?\"<>|]+", "_", name): each maximal run becomes one "_"
SubIllegal(s) ==
    IF s = <<>> THEN <<>>
    ELSE IF Head(s) \in IllegalChars
         THEN IF Len(s) > 1 /\ s[2] \in IllegalChars
              THEN SubIllegal(Tail(s))
              ELSE <<"_">> \o SubIllegal(Tail(s))
         ELSE <<Head(s)>> \o SubIllegal(Tail(s))

RECURSIVE LStrip(_)
LStrip(s) == IF s # <<>> /\ Head(s) = " " THEN LStrip(Tail(s)) ELSE s

RECURSIVE RStrip(_)
RStrip(s) ==
    IF s # <<>> /\ s[Len(s)] = " " THEN RStrip(SubSeq(s, 1, Len(s) - 1)) ELSE s

Strip(s) == RStrip(LStrip(s))

sanitize_filename(name) ==
    LET cleaned == Strip(SubIllegal(name))
    IN  IF cleaned = <<>> THEN <<"unnamed">> ELSE cleaned

\* f"{sanitize_filename(idx)}.pdf"
FileName(idx) == sanitize_filename(idx) \o <<".pdf">>

\* A name the file system refuses (ENAMETOOLONG).
TooLong(name) == \E i \in 1..Len(name) : name[i] = "L"

(* ------------------------------ files ---------------------------------- *)

Absent == [exists |-> FALSE, size |-> 0, magic |-> -1]

OldFile == [exists |-> TRUE, size |-> 5000, magic |-> 0]

(* --------------------------- stream_download --------------------------- *)
(* A response is what stream_download can see of it: whether the request   *)
(* or a later read raises (err), the status, whether Content-Type holds    *)
(* application/pdf, the number of empty chunks iter_content yields first,  *)
(* the size of the first non-empty chunk (0: there is none), the offset of *)
(* "%PDF-" in that chunk (-1: absent) and the bytes of the chunks after it.*)

Responses ==
    { r \in [err : {"none", "connect", "read1", "readrest"},
             status : {200, 403, 404},
             ctPdf : BOOLEAN,
             lead : {0, 1},
             first : {0, 600, ChunkSize},
             magic : {-1, 0, 1020},
             rest : {0, ChunkSize, MAX_CONTENT_MB * 1024 * 1024}] :
        /\ (r.magic >= 0 => r.magic + MagicLen <= r.first)
        /\ (r.first = 0 => r.rest = 0) }

Min(a, b) == IF a < b THEN a ELSE b

looks_like_pdf_whole(first, magic) == magic >= 0 /\ magic + MagicLen <= first

\* head = buf[:1024]; return b"%PDF-" in head
looks_like_pdf(first, magic) ==
    magic >= 0 /\ magic + MagicLen <= Min(first, HeadBytes)

\* (ok, note, the file at out_path afterwards). openOk: open(out_path, "wb")
\* succeeds.
stream_download(r, before, openOk) ==
    LET unchanged(note) == [ok |-> FALSE, note |-> note, file |-> before]
        max_bytes == MAX_CONTENT_MB * 1024 * 1024
        is_pdf_ct == r.ctPdf
        is_pdf_sig == looks_like_pdf(r.first, r.magic)
        partial == [exists |-> TRUE, size |-> r.first, magic |-> r.magic]
        whole == [exists |-> TRUE, size |-> r.first + r.rest, magic |-> r.magic]
        \* the chunks written before total passes max_bytes
        capped == [exists |-> TRUE, magic |-> r.magic,
                   size |-> r.first
                            + ((max_bytes - r.first) \div ChunkSize) * ChunkSize]
    IN  IF r.err = "connect" THEN unchanged("error:ConnectionError")
        ELSE IF r.status >= 400 THEN unchanged("http-" \o ToString(r.status))
        ELSE IF r.err = "read1" THEN unchanged("error:ChunkedEncodingError")
        ELSE IF r.first = 0 THEN unchanged("empty-file")
        ELSE IF ~(is_pdf_ct \/ is_pdf_sig) THEN unchanged("not-pdf")
        ELSE IF ~openOk THEN unchanged("error:OSError")
        ELSE IF r.first > max_bytes
             THEN [ok |-> FALSE, note |-> "too-large", file |-> partial]
        ELSE IF r.err = "readrest" /\ r.rest > 0
             THEN [ok |-> FALSE, note |-> "error:ChunkedEncodingError",
                   file |-> partial]
        ELSE IF r.first + r.rest > max_bytes
             THEN [ok |-> FALSE, note |-> "too-large", file |-> capped]
        ELSE IF whole.size > MinPdfBytes
             THEN [ok |-> TRUE, note |-> "downloaded", file |-> whole]
             ELSE [ok |-> FALSE, note |-> "empty-file", file |-> whole]

(* ------------------------------- state --------------------------------- *)

VARIABLES
    cfg,      \* argv of download_papers.main and the UNPAYWALL_EMAIL variable
    email,    \* main's email
    sheet,    \* the RowData of the rows of df, in sheet order
    slice,    \* the RowData of df_slice, in sheet order
    pos,      \* rows of the slice main is done with
    pc,       \* where download_papers is
    row,      \* the row process_row is working on
    loc,      \* process_row's locals
    stk,      \* the frames of fetch_pdf_via_doi
    froot,    \* the DOI the outermost fetch_pdf_via_doi was called with
    fres,     \* what the last fetch_pdf_via_doi returned
    calls,    \* the sources the outermost fetch_pdf_via_doi has consulted
    http,     \* the HTTP requests the outermost fetch_pdf_via_doi has made
    net,      \* whether an HTTP request was made for the current row
    world,    \* the part of the Internet this run can meet
    pw,       \* playwright_fallback_download calls made for the current row
    files,    \* the output directory: file name -> file
    log,      \* the log file
    logInit,  \* the log file as main found it
    records,  \* main's records list
    rec,      \* the record process_row returned
    sIn,      \* a stream_download call on its own: its arguments
    sOut,     \* and its result
    tasks,    \* 3-sci-hub-download.py: the (index, doi) pairs submitted
    tpc,      \* where each download_paper task is
    round,    \* its pass of "for _ in range(retries)"
    mi,       \* its place in "for mirror in scihub_mirrors"
    visited,  \* the mirrors it has requested a page from, in order
    errCalls, \* the log_error calls it has made
    papers,   \* papers/: index -> the tasks that opened <index>.pdf for writing
    lock,     \* the holder of lock (0: free)
    errfile,  \* the lines of doi-nofinded-scihub.txt
    lIn,      \* a run of mineru_cli.main or apply_clean.main: its arguments
    lOut,     \* and the items it goes on to process
    mIn,      \* a call of extract_md: md_lines and the environment switches
    mOut,     \* and what it wrote
    api_key,           \* MinerUMainWindow.api_key
    pdf_folder_path,   \* MinerUMainWindow.pdf_folder_path
    md_folder_path,    \* MinerUMainWindow.md_folder_path
    txt_folder_path,   \* MinerUMainWindow.txt_folder_path
    page,     \* stacked_widget's current index (1: the run page)
    started,  \* the MinerUWorkers started
    live,     \* the MinerUWorkers running
    dialog,   \* the last state dialog shown
    runs,     \* the Run actions handled
    disk      \* the folders that exist

dlvars == <<cfg, email, sheet, slice, pos, pc, row, loc, stk, froot, fres, calls,
            http, net, world, pw, files, log, logInit, records, rec>>

svars == <<sIn, sOut>>

scivars == <<tasks, tpc, round, mi, visited, errCalls, papers, lock, errfile>>

limvars == <<lIn, lOut>>

mdvars == <<mIn, mOut>>

guivars == <<api_key, pdf_folder_path, md_folder_path, txt_folder_path, page,
             started, live, dialog, runs, disk>>

auxvars == <<limvars, mdvars, guivars>>

(* ------------------------------- URLs ---------------------------------- *)
(* A URL is kept by the source that gave it and by what                    *)
(* guess_referer_from_pdf_url tells apart in its host.                     *)

NoUrl == [src |-> "none", host |-> "none"]

Hosts == {"none", "doi.org", "pub"}

\* The notes of the stages that can give a URL.
YieldNotes == {"unpaywall", "crossref-link", "openalex", "doi-head-pdf",
               "doi-link-header", "doi-get-pdf", "doi-get-link", "html-parse"}

\* The URLs a stage can be given under note src: those this world holds.
UrlsFrom(src) ==
    IF src \in world.yield
    THEN {[src |-> src, host |-> h] : h \in world.hosts}
    ELSE {}

UrlStr(u) == u.src \o "@" \o u.host

\* None without a host, else the article page (or the site root).
guess_referer_from_pdf_url(u) ==
    IF u.host = "none" THEN None ELSE "https://" \o u.host \o "/"

\* f"https://doi.org/{quote(normalize_doi(doi))}"
DoiUrl(d) == "https://doi.org/" \o DoiStr(normalize_doi(d))

(* -------------------------- fetch_pdf_via_doi -------------------------- *)

SourceOrderSwapped ==
    <<"unpaywall", "openalex", "crossref-link", "doi-head", "doi-get",
      "html-parse", "parent-doi">>

\* The order of the stages of fetch_pdf_via_doi.
SourceOrder ==
    <<"unpaywall", "crossref-link", "openalex", "doi-head", "doi-get",
      "html-parse", "parent-doi">>

SourceIndex(s) == CHOOSE i \in 1..Len(SourceOrder) : SourceOrder[i] = s

\* Falling through stage s leads to the next stage.
NextSource(s) == SourceOrder[SourceIndex(s) + 1]

Top == stk[Len(stk)]

NoRes == [url |-> NoUrl, note |-> "not-called"]

\* return url, note
Return(url, note) ==
    /\ fres' = [url |-> url, note |-> note]
    /\ pc' = Top.ret
    /\ stk' = SubSeq(stk, 1, Len(stk) - 1)

FallThrough(s) == pc' = NextSource(s) /\ UNCHANGED <<stk, fres>>

\* What a stage does with the URL it got (NoUrl: none).
Yield(s, url, note) ==
    IF url # NoUrl THEN Return(url, note) ELSE FallThrough(s)

FetchFrame == UNCHANGED <<cfg, email, sheet, slice, pos, row, loc, froot, world, pw,
                          files, log, logInit, records, rec, svars, scivars, auxvars>>

\* An HTTP request of stage s goes out.
Request(s) == http' = Append(http, s) /\ net' = TRUE

NoRequest == UNCHANGED <<http, net>>

\* Calling fetch_pdf_via_doi(doi) from position ret.
CallFetch(doi, ret) ==
    /\ stk' = Append(stk, [arg |-> doi, norm |-> normalize_doi(doi), ret |-> ret])
    /\ pc' = "f_enter"

FetchEnter ==
    /\ pc = "f_enter"
    /\ IF Top.norm = EmptyDoi
       THEN Return(NoUrl, "empty-doi")
       ELSE pc' = SourceOrder[1] /\ UNCHANGED <<stk, fres>>
    /\ UNCHANGED calls
    /\ NoRequest
    /\ FetchFrame

UnpaywallAsksAlways(e) == TRUE

\* try_unpaywall_pdf: "if not email: return None" comes before the request
UnpaywallAsks(e) == Truthy(e)

TryUnpaywall ==
    /\ pc = "unpaywall"
    /\ calls' = Append(calls, "unpaywall")
    /\ IF UnpaywallAsks(email)
       THEN /\ Request("unpaywall")
            /\ \E u \in {NoUrl} \cup UrlsFrom("unpaywall") :
                 Yield("unpaywall", u, "unpaywall")
       ELSE /\ NoRequest
            /\ FallThrough("unpaywall")
    /\ FetchFrame

TryCrossref ==
    /\ pc = "crossref-link"
    /\ calls' = Append(calls, "crossref-link")
    /\ Request("crossref-link")
    /\ \E u \in {NoUrl} \cup UrlsFrom("crossref-link") :
         Yield("crossref-link", u, "crossref-link")
    /\ FetchFrame

TryOpenAlex ==
    /\ pc = "openalex"
    /\ calls' = Append(calls, "openalex")
    /\ Request("openalex")
    /\ \E u \in {NoUrl} \cup UrlsFrom("openalex") :
         Yield("openalex", u, "openalex")
    /\ FetchFrame

\* HEAD https://doi.org/<doi>: it raises, or answers a PDF, or names one in
\* its Link header, or neither.
DoiHead ==
    /\ pc = "doi-head"
    /\ calls' = Append(calls, "doi-head")
    /\ Request("doi-head")
    /\ \E o \in {"raises", "neither", "doi-head-pdf", "doi-link-header"} :
         IF UrlsFrom(o) = {}
         THEN FallThrough("doi-head")
         ELSE \E u \in UrlsFrom(o) : Return(u, o)
    /\ FetchFrame

\* GET with Accept: application/pdf; only a 200 is looked at.
DoiGet ==
    /\ pc = "doi-get"
    /\ calls' = Append(calls, "doi-get")
    /\ Request("doi-get")
    /\ \E o \in {"raises", "not-200", "neither", "doi-get-pdf", "doi-get-link"} :
         IF UrlsFrom(o) = {}
         THEN FallThrough("doi-get")
         ELSE \E u \in UrlsFrom(o) : Return(u, o)
    /\ FetchFrame

\* get_with_html and parse_pdf_from_html
HtmlParse ==
    /\ pc = "html-parse"
    /\ calls' = Append(calls, "html-parse")
    /\ Request("html-parse")
    /\ \E u \in {NoUrl} \cup UrlsFrom("html-parse") :
         Yield("html-parse", u, "html-parse")
    /\ FetchFrame

\* A supplementary DOI falls back to its parent DOI.
TryParent ==
    /\ pc = "parent-doi"
    /\ IF IsSupplementary(Top.norm) /\ ParentDoi(Top.norm) # Top.norm
       THEN /\ calls' = Append(calls, "parent-doi")
            /\ CallFetch(ParentDoi(Top.norm), "f_parent_ret")
            /\ UNCHANGED fres
       ELSE /\ calls' = calls
            /\ Return(NoUrl, "no-pdf-from-doi")
    /\ NoRequest
    /\ FetchFrame

ParentReturned ==
    /\ pc = "f_parent_ret"
    /\ IF fres.url # NoUrl
       THEN Return(fres.url, "parent-doi:" \o fres.note)
       ELSE Return(NoUrl, "no-pdf-from-doi")
    /\ UNCHANGED calls
    /\ NoRequest
    /\ FetchFrame

FetchStep ==
    \/ FetchEnter
    \/ TryUnpaywall
    \/ TryCrossref
    \/ TryOpenAlex
    \/ DoiHead
    \/ DoiGet
    \/ HtmlParse
    \/ TryParent
    \/ ParentReturned

(* ----------------------------- process_row ----------------------------- *)

\* One line of the log: (index, doi, title, status, notes).
Record(idx, doi, title, status, notes) ==
    [index |-> idx, doi |-> DoiStr(doi), title |-> title, status |-> status,
     notes |-> notes]

\* The file at a name of the output directory (a refused name holds none).
FileAt(name) == IF name \in DOMAIN files THEN files[name] ELSE Absent

\* The output directory after out_path was left as file f.
Written(name, f) ==
    IF name \in DOMAIN files THEN [files EXCEPT ![name] = f] ELSE files

\* process_row's locals; doi_res keeps what DOI resolution returned, looked
\* whether the title lookup was made, tries the download attempts made.
NoLoc == [doi |-> EmptyDoi, title |-> "", pdf_url |-> NoUrl, note |-> "",
          doi_res |-> NoUrl, looked |-> FALSE, tries |-> 0, ok |-> FALSE,
          dnote |-> "", last |-> ""]

out_path == FileName(row.idx)

\* doi and is_probably_doi(doi)
UsableDoi(d) == d # EmptyDoi /\ is_probably_doi(d)

\* The responses a download can meet in this world.
WorldResponses ==
    CASE world.resp = "plain" ->
           {r \in Responses : /\ r.err \in {"none", "connect"}
                              /\ r.lead = 0
                              /\ r.ctPdf = (r.magic = 0)
                              /\ r.first \in {0, ChunkSize}
                              /\ r.rest = 0}
      [] world.resp = "paywall" ->
           {r \in Responses : /\ r.err = "none" /\ r.status = 403
                              /\ r.lead = 0 /\ ~r.ctPdf
                              /\ r.first = 600 /\ r.magic = -1 /\ r.rest = 0}
      [] world.resp = "open" ->
           {r \in Responses : /\ r.err = "none" /\ r.status = 200
                              /\ r.lead = 0 /\ r.ctPdf
                              /\ r.first = ChunkSize /\ r.magic = 0 /\ r.rest = 0}

\* One stream_download(session, url, out_path): the request, and the file it
\* leaves.
Download(d) ==
    /\ net' = TRUE
    /\ files' = Written(out_path, d.file)

Downloads ==
    {stream_download(r, FileAt(out_path), ~TooLong(out_path)) : r \in WorldResponses}

RowFrame == UNCHANGED <<cfg, email, sheet, slice, pos, world, logInit, log, records, svars, scivars, auxvars>>

SkipExistingNever(f, overwrite) == FALSE

\* if out_path.exists() and not overwrite
SkipExisting(f, overwrite) == f.exists /\ ~overwrite

\* main's loop picks the next row and process_row runs up to its first call:
\* the checks of the index and of the existing file, then DOI resolution.
ProcessRowBegin ==
    /\ pc = "loop"
    /\ pos < Len(slice)
    /\ LET r == slice[pos + 1]
           name == FileName(r.idx)
           done(status, notes) ==
               /\ rec' = Record(r.idx, r.doi, r.title, status, notes)
               /\ pc' = "log"
               /\ UNCHANGED <<stk, froot>>
       IN  /\ row' = r
           /\ loc' = [NoLoc EXCEPT !.doi = r.doi, !.title = r.title]
           /\ IF r.idx = <<>> THEN done("no_index", "skip: empty index")
              ELSE \E raises \in {FALSE, TooLong(name)} :
                   IF raises THEN done("error", "exception:OSError")
                   ELSE IF SkipExisting(FileAt(name), cfg.overwrite)
                        THEN done("exists", "out_path")
                   ELSE IF UsableDoi(r.doi)
                        THEN /\ froot' = r.doi
                             /\ CallFetch(r.doi, "pr_after_doi")
                             /\ UNCHANGED rec
                        ELSE /\ pc' = "pr_title"
                             /\ UNCHANGED <<stk, froot, rec>>
    /\ http' = <<>>
    /\ net' = FALSE
    /\ pw' = 0
    /\ calls' = <<>>
    /\ fres' = NoRes
    /\ UNCHANGED files
    /\ RowFrame

\* pdf_url, note = fetch_pdf_via_doi(doi, ...)
AfterDoi ==
    /\ pc = "pr_after_doi"
    /\ loc' = [loc EXCEPT !.pdf_url = fres.url, !.note = fres.note,
                          !.doi_res = fres.url]
    /\ pc' = "pr_title"
    /\ fres' = NoRes
    /\ calls' = <<>>
    /\ http' = <<>>
    /\ UNCHANGED <<row, stk, froot, net, pw, files, rec>>
    /\ RowFrame

TitleLookupAlways(l) == l.title # ""

\* if not pdf_url and title
TitleLookupDue(l) == l.pdf_url = NoUrl /\ l.title # ""

\* crossref_find_doi_by_title, then DOI resolution with the DOI it found
TitleLookup ==
    /\ pc = "pr_title"
    /\ IF TitleLookupDue(loc)
       THEN /\ net' = TRUE
            /\ \E cr \in world.titles :
                 IF cr # EmptyDoi
                 THEN /\ loc' = [loc EXCEPT !.doi = cr, !.looked = TRUE]
                      /\ froot' = cr
                      /\ CallFetch(cr, "pr_after_title")
                 ELSE /\ loc' = [loc EXCEPT !.looked = TRUE]
                      /\ pc' = "pr_resolved"
                      /\ UNCHANGED <<stk, froot>>
       ELSE /\ pc' = "pr_resolved"
            /\ UNCHANGED <<loc, net, stk, froot>>
    /\ UNCHANGED <<row, calls, http, fres, pw, files, rec>>
    /\ RowFrame

\* pdf_url, note = fetch_pdf_via_doi(cr_doi, ...)
AfterTitle ==
    /\ pc = "pr_after_title"
    /\ loc' = [loc EXCEPT !.pdf_url = fres.url,
                          !.note = IF fres.url = NoUrl
                                   THEN "crossref-doi:" \o fres.note
                                   ELSE fres.note]
    /\ pc' = "pr_resolved"
    /\ fres' = NoRes
    /\ calls' = <<>>
    /\ http' = <<>>
    /\ UNCHANGED <<row, stk, froot, net, pw, files, rec>>
    /\ RowFrame

\* No URL: one GET of the DOI itself, else not_found. A URL: the first
\* download attempt (the article page is fetched before it for its cookies).
Resolved ==
    /\ pc = "pr_resolved"
    /\ LET finish(status, notes) ==
               /\ rec' = Record(row.idx, loc.doi, loc.title, status, notes)
               /\ pc' = "log"
               /\ UNCHANGED loc
           note_or == IF loc.note # "" THEN loc.note ELSE "no-pdf"
       IN  IF loc.pdf_url = NoUrl
           THEN IF UsableDoi(loc.doi)
                THEN \E d \in Downloads :
                       /\ Download(d)
                       /\ IF d.ok THEN finish("downloaded", "doi-get")
                          ELSE finish("not_found", note_or)
                ELSE /\ finish("not_found", note_or)
                     /\ UNCHANGED <<net, files>>
           ELSE \E d \in Downloads :
                  /\ Download(d)
                  /\ loc' = [loc EXCEPT !.ok = d.ok, !.dnote = d.note, !.tries = 1]
                  /\ pc' = "pr_dl1_done"
                  /\ UNCHANGED rec
    /\ UNCHANGED <<row, stk, froot, fres, calls, http, pw>>
    /\ RowFrame

\* if not ok and dnote in {...} and doi_ref and art_ref != doi_ref
RetryDue(l, art_ref, doi_ref) ==
    /\ ~l.ok
    /\ l.dnote \in {"http-403", "not-pdf", "empty-file"}
    /\ doi_ref # None
    /\ art_ref # doi_ref

\* After the first attempt: the retry with the DOI as Referer, which returns
\* either way; or success; or the final GET of the DOI itself.
AfterFirstDownload ==
    /\ pc = "pr_dl1_done"
    /\ LET art_ref == guess_referer_from_pdf_url(loc.pdf_url)
           doi_ref == IF loc.doi # EmptyDoi THEN DoiUrl(loc.doi) ELSE None
           finish(status, notes) ==
               /\ rec' = Record(row.idx, loc.doi, loc.title, status, notes)
               /\ pc' = "log"
           tried == [loc EXCEPT !.tries = loc.tries + 1]
       IN  IF RetryDue(loc, art_ref, doi_ref)
           THEN \E d \in Downloads :
                  /\ Download(d)
                  /\ loc' = tried
                  /\ IF d.ok THEN finish("downloaded", UrlStr(loc.pdf_url))
                     ELSE finish("error", d.note \o "|" \o UrlStr(loc.pdf_url))
           ELSE IF loc.ok
           THEN /\ finish("downloaded", UrlStr(loc.pdf_url))
                /\ UNCHANGED <<net, files, loc>>
           ELSE IF UsableDoi(loc.doi)
           THEN \E d \in Downloads :
                  /\ Download(d)
                  /\ IF d.ok
                     THEN /\ finish("downloaded", "doi-get-final")
                          /\ loc' = tried
                     ELSE /\ loc' = [tried EXCEPT
                                       !.last = loc.dnote \o "|" \o UrlStr(loc.pdf_url)
                                                \o "|fallback:" \o d.note]
                          /\ pc' = "pr_pw"
                          /\ UNCHANGED rec
           ELSE /\ loc' = [loc EXCEPT
                             !.last = loc.dnote \o "|" \o UrlStr(loc.pdf_url)]
                /\ pc' = "pr_pw"
                /\ UNCHANGED <<net, files, rec>>
    /\ UNCHANGED <<row, stk, froot, fres, calls, http, pw>>
    /\ RowFrame

\* What the browser fallback can end with: (okb, nb, the file it leaves).
PlaywrightOutcomes(before, openOk) ==
    {[ok |-> FALSE, note |-> "playwright-not-installed", file |-> before],
     [ok |-> FALSE, note |-> "no-pdf-link", file |-> before]}
    \cup (IF openOk
          THEN {[ok |-> TRUE, note |-> "browser-download",
                 file |-> [exists |-> TRUE, size |-> ChunkSize, magic |-> 0]],
                [ok |-> FALSE, note |-> "requests-failed:http-403",
                 file |-> [exists |-> TRUE, size |-> 600, magic |-> -1]]}
          ELSE {})

\* use_pw = any(a == "--use-playwright" for a in sys.argv), then the browser
\* fallback or the error record
PlaywrightFallback ==
    /\ pc = "pr_pw"
    /\ IF cfg.usePw
       THEN /\ pw' = pw + 1
            /\ \E o \in PlaywrightOutcomes(FileAt(out_path), ~TooLong(out_path)) :
                 /\ files' = Written(out_path, o.file)
                 /\ net' = TRUE
                 /\ rec' = IF o.ok
                           THEN Record(row.idx, loc.doi, loc.title, "downloaded", o.note)
                           ELSE Record(row.idx, loc.doi, loc.title, "error",
                                       loc.last \o "|playwright:" \o o.note)
       ELSE /\ rec' = Record(row.idx, loc.doi, loc.title, "error", loc.last)
            /\ UNCHANGED <<pw, files, net>>
    /\ pc' = "log"
    /\ UNCHANGED <<row, loc, stk, froot, fres, calls, http>>
    /\ RowFrame

(* -------------------------------- main --------------------------------- *)

HeaderRow == [index |-> <<"index">>, doi |-> "doi", title |-> "title",
              status |-> "status", notes |-> "notes"]

NoLog == [exists |-> FALSE, lines |-> <<>>]

\* append_log(log_path, records)
append_log_twice(l, recs) ==
    [exists |-> TRUE,
     lines |-> l.lines \o (IF ~l.exists THEN <<HeaderRow>> ELSE <<>>) \o recs \o recs]

append_log(l, recs) ==
    [exists |-> TRUE,
     lines |-> l.lines \o (IF ~l.exists THEN <<HeaderRow>> ELSE <<>>) \o recs]

\* email = args.email or os.environ.get("UNPAYWALL_EMAIL")
ResolveEmail(arg, env) == IF Truthy(arg) THEN arg ELSE env

Max(a, b) == IF a > b THEN a ELSE b

\* --limit as argparse leaves it: not given (None), or an integer.
NoLimit == [given |-> FALSE, n |-> 0]

Limit(n) == [given |-> TRUE, n |-> n]

\* Where a slice bound i falls in a sequence of n elements.
SliceIndex(i, n) == IF i < 0 THEN Max(i + n, 0) ELSE Min(i, n)

\* s[lo:hi]
PySlice(s, lo, hi) ==
    LET a == SliceIndex(lo, Len(s))
        b == SliceIndex(hi, Len(s))
    IN  IF a < b THEN SubSeq(s, a + 1, b) ELSE <<>>

\* s[lo:]
PySliceFrom(s, lo) == PySlice(s, lo, Len(s))

\* start = max(args.start or 0, 0); end = start + args.limit if args.limit is
\* not None else None; df.iloc[start:end] or df.iloc[start:]
df_slice(df, arg_start, arg_limit) ==
    LET start == Max(arg_start, 0)
    IN  IF arg_limit.given
        THEN PySlice(df, start, start + arg_limit.n)
        ELSE PySliceFrom(df, start)

Configure ==
    /\ pc = "start"
    /\ email' = ResolveEmail(cfg.argEmail, cfg.envEmail)
    /\ pc' = "loop"
    /\ slice' = df_slice(sheet, cfg.start, cfg.limit)
    /\ UNCHANGED <<cfg, sheet, pos, row, loc, stk, froot, fres, calls, http,
                   net, world, pw, files, log, logInit, records, rec, svars, scivars, auxvars>>

\* records.append(rec); append_log in its try; the interactive prompt, which
\* Ctrl+C turns into a break.
LogRow ==
    /\ pc = "log"
    /\ records' = Append(records, rec)
    /\ \E written \in world.logWrites :
         log' = IF written THEN append_log(log, <<rec>>) ELSE log
    /\ pos' = pos + 1
    /\ IF cfg.interactive /\ rec.status \in {"not_found", "error"}
       THEN \E interrupt \in BOOLEAN :
              pc' = IF interrupt THEN "done" ELSE "loop"
       ELSE pc' = "loop"
    /\ UNCHANGED <<cfg, email, sheet, slice, row, loc, stk, froot, fres, calls, http,
                   net, world, pw, files, logInit, rec, svars, scivars, auxvars>>

\* The loop ends; the summary is printed.
Finish ==
    /\ pc = "loop"
    /\ pos = Len(slice)
    /\ pc' = "done"
    /\ UNCHANGED <<cfg, email, sheet, slice, pos, row, loc, stk, froot, fres, calls,
                   http, net, world, pw, files, log, logInit, records, rec, svars, scivars, auxvars>>

(* ------------------------ 3-sci-hub-download.py ------------------------ *)

NaN == "NaN"

RECURSIVE dropna(_)
\* df[[index column, doi column]].dropna()
dropna(rows) ==
    IF rows = <<>> THEN <<>>
    ELSE IF Head(rows).index = NaN \/ Head(rows).doi = NaN
         THEN dropna(Tail(rows))
         ELSE <<Head(rows)>> \o dropna(Tail(rows))

Workers == 1..MaxTasks

Submitted == 1..Len(tasks)

Running == {t \in Submitted : tpc[t] \in {"try", "failed", "cs", "cs_written"}}

Ended == {"ok", "logged"}

\* f"{index}.pdf" under papers/
PaperOf(t) == tasks[t].index

SciFrame == UNCHANGED <<tasks, dlvars, svars, auxvars>>

\* A worker of the pool takes the next queued task: download_paper starts.
StartTask(t) ==
    /\ t \in Submitted
    /\ tpc[t] = "queued"
    /\ \A u \in Submitted : u < t => tpc[u] # "queued"
    /\ Cardinality(Running) < MaxWorkers
    /\ IF Retries > 0 /\ NumMirrors > 0
       THEN /\ tpc' = [tpc EXCEPT ![t] = "try"]
            /\ errCalls' = errCalls
       ELSE /\ tpc' = [tpc EXCEPT ![t] = "failed"]
            /\ errCalls' = [errCalls EXCEPT ![t] = @ + 1]
    /\ round' = [round EXCEPT ![t] = 1]
    /\ mi' = [mi EXCEPT ![t] = 1]
    /\ UNCHANGED <<visited, papers, lock, errfile>>
    /\ SciFrame

SucceededAlsoLogs(t) == "failed"

\* return, right after the PDF is written
Succeeded(t) == "ok"

\* How one pass over one mirror can end: the page request raises or is not a
\* 200; the page has no iframe/embed with a src; the PDF request raises, is
\* not a 200 or gives nothing, or the file cannot be opened; the PDF is
\* written.
AttemptOutcomes == {"no-page", "no-src", "no-pdf", "written"}

\* One pass of the inner loop: the page of mirror mi, the PDF, the file;
\* then return, or sleep and go on to the next mirror, the next round, or
\* out of the loops to log_error.
Attempt(t) ==
    /\ t \in Submitted
    /\ tpc[t] = "try"
    /\ visited' = [visited EXCEPT ![t] = Append(@, mi[t])]
    /\ \E o \in AttemptOutcomes :
         /\ papers' = IF o = "written"
                      THEN [papers EXCEPT ![PaperOf(t)] = @ \cup {t}]
                      ELSE papers
         /\ IF o = "written"
            THEN /\ tpc' = [tpc EXCEPT ![t] = Succeeded(t)]
                 /\ errCalls' = [errCalls EXCEPT ![t] =
                                   IF Succeeded(t) = "ok" THEN @ ELSE @ + 1]
                 /\ UNCHANGED <<round, mi>>
            ELSE IF mi[t] < NumMirrors
            THEN /\ mi' = [mi EXCEPT ![t] = @ + 1]
                 /\ UNCHANGED <<round, tpc, errCalls>>
            ELSE IF round[t] < Retries
            THEN /\ mi' = [mi EXCEPT ![t] = 1]
                 /\ round' = [round EXCEPT ![t] = @ + 1]
                 /\ UNCHANGED <<tpc, errCalls>>
            ELSE /\ tpc' = [tpc EXCEPT ![t] = "failed"]
                 /\ errCalls' = [errCalls EXCEPT ![t] = @ + 1]
                 /\ UNCHANGED <<round, mi>>
    /\ UNCHANGED <<lock, errfile>>
    /\ SciFrame

LockFreeAlways(holder) == TRUE

\* lock.acquire() goes through when no thread holds the lock
LockFree(holder) == holder = 0

\* log_error: with lock
Acquire(t) ==
    /\ t \in Submitted
    /\ tpc[t] = "failed"
    /\ LockFree(lock)
    /\ lock' = t
    /\ tpc' = [tpc EXCEPT ![t] = "cs"]
    /\ UNCHANGED <<round, mi, visited, errCalls, papers, errfile>>
    /\ SciFrame

\* with open("doi-nofinded-scihub.txt", "a+"): write(f"{index}: {doi}\n")
WriteError(t) ==
    /\ t \in Submitted
    /\ tpc[t] = "cs"
    /\ errfile' = Append(errfile, [index |-> tasks[t].index, doi |-> tasks[t].doi])
    /\ tpc' = [tpc EXCEPT ![t] = "cs_written"]
    /\ UNCHANGED <<round, mi, visited, errCalls, papers, lock>>
    /\ SciFrame

\* leaving "with lock"
Release(t) ==
    /\ t \in Submitted
    /\ tpc[t] = "cs_written"
    /\ lock' = IF lock = t THEN 0 ELSE lock
    /\ tpc' = [tpc EXCEPT ![t] = "logged"]
    /\ UNCHANGED <<round, mi, visited, errCalls, papers, errfile>>
    /\ SciFrame

TaskStep(t) ==
    \/ StartTask(t)
    \/ Attempt(t)
    \/ Acquire(t)
    \/ WriteError(t)
    \/ Release(t)

NextSci == \E t \in Workers : TaskStep(t)

SheetRows == {[index |-> "1", doi |-> "a"], [index |-> "1", doi |-> "b"],
              [index |-> "2", doi |-> "b"], [index |-> NaN, doi |-> "a"],
              [index |-> "2", doi |-> NaN]}

(* ------------------------- stream_download alone ----------------------- *)

NotCalled == [ok |-> FALSE, note |-> "not-called", file |-> Absent]

StreamCall ==
    /\ sOut = NotCalled
    /\ sOut' = stream_download(sIn.r, sIn.before, sIn.openOk)
    /\ UNCHANGED <<sIn, dlvars, scivars, auxvars>>

(* ------------------- mineru_cli.py and apply_clean.py ------------------ *)

RECURSIVE SortedSeq(_)
\* files.sort(): the names of a directory in order
SortedSeq(S) ==
    IF S = {} THEN <<>>
    ELSE LET m == CHOOSE x \in S : \A y \in S : x <= y
         IN  <<m>> \o SortedSeq(S \ {m})

RECURSIVE Dedup(_, _)
\* list(dict.fromkeys(xs)): first occurrences, in order
Dedup(xs, seen) ==
    IF xs = <<>> THEN <<>>
    ELSE IF Head(xs) \in seen THEN Dedup(Tail(xs), seen)
    ELSE <<Head(xs)>> \o Dedup(Tail(xs), seen \cup {Head(xs)})

limit_unguarded(items, arg_start, arg_limit) ==
    PySlice(items, Max(arg_start, 0), Max(arg_start, 0) + arg_limit)

\* end = start + args.limit if args.limit and args.limit > 0 else None;
\* items[start:end] or items[start:]
limit_slice(items, arg_start, arg_limit) ==
    LET start == Max(arg_start, 0)
    IN  IF arg_limit # 0 /\ arg_limit > 0
        THEN PySlice(items, start, start + arg_limit)
        ELSE PySliceFrom(items, start)

\* mineru_cli.main: pdfs
mineru_pdfs(a) == limit_slice(SortedSeq(a.dir), a.start, a.limit)

\* apply_clean.main: indices
clean_indices(a) ==
    IF a.indices # <<>>
    THEN Dedup(a.indices, {})
    ELSE limit_slice(SortedSeq(a.dir), a.start, a.limit)

NotRun == [state |-> "not-run", items |-> <<>>]

\* One run of either tool, up to the list it goes on to process.
ToolRun ==
    /\ lOut = NotRun
    /\ lOut' = [state |-> "ran",
                items |-> IF lIn.tool = "mineru_cli" THEN mineru_pdfs(lIn)
                          ELSE clean_indices(lIn)]
    /\ UNCHANGED <<lIn, mdvars, guivars, dlvars, svars, scivars>>

(* ------------------------- my_tips.extract_md -------------------------- *)
(* A line of md_lines is kept by its place in the list (id), by what the   *)
(* patterns of the passes say of its text (kind) and by whether it ends    *)
(* with "\n" (nl). md_lines comes from readlines(): every line but the     *)
(* last ends with "\n". table_map is empty (no raw_dir), so an image       *)
(* always goes and no line holds a newline inside.                         *)

LineKinds == {"text", "blank", "img", "fig", "title", "ref"}

\* img_pat.sub(repl, line): a line of nothing but an image is left blank
strip_images(l) == IF l.kind = "img" THEN [l EXCEPT !.kind = "blank"] ELSE l

\* l.rstrip() + ("\n" if not l.endswith("\n") else ""): rstrip takes a final
\* "\n" with the spaces, and one is put back only where there was none
rstrip_line(l) == [l EXCEPT !.nl = ~l.nl]

\* l.strip() == ""
is_blank(l) == l.kind = "blank"

RECURSIVE MapLines(_, _)
MapLines(Op(_), ls) ==
    IF ls = <<>> THEN <<>> ELSE <<Op(Head(ls))>> \o MapLines(Op, Tail(ls))

RECURSIVE collapse(_, _)
\* collapsed_lines: a blank line after a blank line, or first, is skipped
collapse(ls, prev_blank) ==
    IF ls = <<>> THEN <<>>
    ELSE IF is_blank(Head(ls)) /\ prev_blank THEN collapse(Tail(ls), prev_blank)
    ELSE <<Head(ls)>> \o collapse(Tail(ls), is_blank(Head(ls)))

RECURSIVE pop_blank(_)
\* while collapsed_lines and collapsed_lines[-1].strip() == "": pop()
pop_blank(ls) ==
    IF ls # <<>> /\ is_blank(ls[Len(ls)])
    THEN pop_blank(SubSeq(ls, 1, Len(ls) - 1))
    ELSE ls

\* if collapsed_lines and not collapsed_lines[-1].endswith("\n"): += "\n"
end_newline(ls) ==
    IF ls # <<>> /\ ~ls[Len(ls)].nl THEN [ls EXCEPT ![Len(ls)].nl = TRUE] ELSE ls

\* pass 2 of extract_md: trailing whitespace, then blank lines
whitespace(ls) == end_newline(pop_blank(collapse(MapLines(rstrip_line, ls), TRUE)))

RECURSIVE drop_captions(_, _)
\* a line pat_fig matches goes, with every line up to the next blank one
drop_captions(ls, skip) ==
    IF ls = <<>> THEN <<>>
    ELSE LET ln == Head(ls)
         IN  IF ~skip /\ ln.kind = "fig" THEN drop_captions(Tail(ls), TRUE)
             ELSE IF skip THEN drop_captions(Tail(ls), ~is_blank(ln))
             ELSE <<ln>> \o drop_captions(Tail(ls), FALSE)

\* normalize_math_text works inside $...$ of one line: the list of lines,
\* their ends and what the later patterns say of them stay
clean_math_lines(ls) == ls

\* lines[i] of Python
At(ls, i) == ls[i + 1]

\* lines[a:b] of Python for 0 <= a, b <= len
Cut(ls, a, b) == SubSeq(ls, a + 1, b)

title_match(l) == l.kind = "title"

is_ref_like(l) == l.kind = "ref"

\* range(int(len(lines)*0.5), len(lines)) of the title search
title_scan(n) == n \div 2

\* int(len(lines) * 0.6)
start_scan(n) == (6 * n) \div 10

\* int(len(lines) * 0.75)
last_quarter(n) == (3 * n) \div 4

block_scan_whole(n) == 0

\* int(len(lines) * 0.5) of the block removal
block_scan(n) == n \div 2

NoCut == -1

\* the first index from lo on whose line satisfies P, or NoCut
FirstFrom(P(_), ls, lo) ==
    LET hits == {i \in lo..Len(ls) - 1 : P(At(ls, i))}
    IN  IF hits = {} THEN NoCut
        ELSE CHOOSE i \in hits : \A j \in hits : i <= j

\* cut_idx of the title search
title_cut(ls) == FirstFrom(title_match, ls, title_scan(Len(ls)))

\* cut_idx of the morphological fallback
fallback_cut(ls) ==
    LET n == Len(ls)
        cand == FirstFrom(is_ref_like, ls, start_scan(n))
        tail == {i \in cand..cand + 9 : i < n /\ is_ref_like(At(ls, i))}
    IN  IF cand # NoCut /\ cand >= last_quarter(n) /\ Cardinality(tail) >= 5
        THEN cand
        ELSE NoCut

RECURSIVE block_end(_, _)
\* j after the inner while: the block runs over blank and reference-like lines
block_end(ls, j) ==
    IF j < Len(ls) /\ (is_blank(At(ls, j)) \/ is_ref_like(At(ls, j)))
    THEN block_end(ls, j + 1)
    ELSE j

RECURSIVE block_removal(_, _, _, _)
\* the while loop of the block removal: new_lines and removed_refs
block_removal(ls, i, new_lines, removed) ==
    IF i >= Len(ls) THEN [lines |-> new_lines, removed_refs |-> removed]
    ELSE IF is_ref_like(At(ls, i))
         THEN LET j == block_end(ls, i)
                  block == Cut(ls, i, j)
                  ref_count == Cardinality({k \in i..j - 1 : is_ref_like(At(ls, k))})
              IN  IF ref_count >= 5 /\ 10 * ref_count >= 6 * Len(block)
                  THEN block_removal(ls, j, new_lines, removed \o block)
                  ELSE block_removal(ls, j, new_lines \o block, removed)
         ELSE block_removal(ls, i + 1, Append(new_lines, At(ls, i)), removed)

\* the reference removal of extract_md: lines and removed_refs after it
remove_refs(ls) ==
    LET t == title_cut(ls)
        cut_idx == IF t # NoCut THEN t ELSE fallback_cut(ls)
        from == block_scan(Len(ls))
    IN  IF cut_idx # NoCut
        THEN [lines |-> Cut(ls, 0, cut_idx),
              removed_refs |-> Cut(ls, cut_idx, Len(ls))]
        ELSE block_removal(ls, from, Cut(ls, 0, from), <<>>)

RECURSIVE writelines(_, _, _)
\* f_md.writelines(lines): the lines of the file (each the ids of the
\* non-blank list items that run together in it) and what follows the last
\* "\n"
writelines(ls, rows, cur) ==
    IF ls = <<>> THEN [rows |-> rows, rest |-> cur]
    ELSE LET l == Head(ls)
             c == IF is_blank(l) THEN cur ELSE Append(cur, l.id)
         IN  IF l.nl THEN writelines(Tail(ls), Append(rows, c), <<>>)
             ELSE writelines(Tail(ls), rows, c)

\* extract_md up to the .md file
extract_md(a) ==
    LET processed_lines == MapLines(strip_images, a.md_lines)
        collapsed_lines == whitespace(processed_lines)
        captioned == IF a.drop_fig_caps /\ collapsed_lines # <<>>
                     THEN drop_captions(collapsed_lines, FALSE)
                     ELSE collapsed_lines
        received == clean_math_lines(captioned)
        r == IF a.drop_refs /\ received # <<>>
             THEN remove_refs(received)
             ELSE [lines |-> received, removed_refs |-> <<>>]
    IN  [state |-> "written", received |-> received, lines |-> r.lines,
         removed_refs |-> r.removed_refs, md |-> writelines(r.lines, <<>>, <<>>)]

NotWritten == [state |-> "not-run", received |-> <<>>, lines |-> <<>>,
               removed_refs |-> <<>>, md |-> [rows |-> <<>>, rest |-> <<>>]]

\* One call of extract_md.
ExtractMd ==
    /\ mOut = NotWritten
    /\ mOut' = extract_md(mIn)
    /\ UNCHANGED <<mIn, limvars, guivars, dlvars, svars, scivars>>

(* ------------------ DocNerd MinerU Helper: the Run action -------------- *)

\* The folders the user can select or the environment can name.
FolderPaths == {"a", "b"}

NoDialog == [state |-> "none", missing |-> {}, not_found |-> {}]

\* update_state_dialog("Done", ...)
DoneDialog == [state |-> "Done", missing |-> {}, not_found |-> {}]

\* update_state_dialog("Error", ...) with the names the message holds
ErrorDialog(miss, nf) == [state |-> "Error", missing |-> miss, not_found |-> nf]

\* The most Run actions of one session.
MaxRuns == 2

\* set_up_enter and set_up_txt: the key entered, or read from the file, stripped
set_up ==
    /\ \E result \in {"", "k"} :
          IF result # ""
          THEN api_key' = result /\ dialog' = DoneDialog
          ELSE api_key' = api_key /\ dialog' = ErrorDialog({}, {})
    /\ UNCHANGED <<pdf_folder_path, md_folder_path, txt_folder_path, page,
                   started, live, runs, disk, limvars, mdvars, dlvars, svars,
                   scivars>>

\* select_folders, the dialog accepted
select_folders ==
    /\ \E result \in [pdf : FolderPaths \cup {""}, md : FolderPaths \cup {""},
                      txt : FolderPaths \cup {""}] :
          IF result.pdf # "" /\ result.md # "" /\ result.txt # ""
          THEN /\ pdf_folder_path' = result.pdf
               /\ md_folder_path' = result.md
               /\ txt_folder_path' = result.txt
               /\ dialog' = DoneDialog
          ELSE /\ UNCHANGED <<pdf_folder_path, md_folder_path, txt_folder_path>>
               /\ dialog' = ErrorDialog({}, {})
    /\ UNCHANGED <<api_key, page, started, live, runs, disk, limvars, mdvars,
                   dlvars, svars, scivars>>

missing_without_key ==
    (IF ~Truthy(pdf_folder_path) THEN {"PDF Folder"} ELSE {})
    \cup (IF ~Truthy(md_folder_path) THEN {"MD Folder"} ELSE {})
    \cup (IF ~Truthy(txt_folder_path) THEN {"Output Folder"} ELSE {})

\* running_mineru: missing
missing ==
    (IF ~Truthy(api_key) THEN {"API Key"} ELSE {})
    \cup (IF ~Truthy(pdf_folder_path) THEN {"PDF Folder"} ELSE {})
    \cup (IF ~Truthy(md_folder_path) THEN {"MD Folder"} ELSE {})
    \cup (IF ~Truthy(txt_folder_path) THEN {"Output Folder"} ELSE {})

\* running_mineru: not_found, path_check having made the output folder or raised
not_found(made) ==
    (IF Truthy(pdf_folder_path) /\ pdf_folder_path \notin disk THEN {"PDF"} ELSE {})
    \cup (IF Truthy(md_folder_path) /\ md_folder_path \notin disk THEN {"MD"} ELSE {})
    \cup (IF Truthy(txt_folder_path) /\ txt_folder_path \notin disk /\ ~made
          THEN {"OUT"} ELSE {})

\* running_mineru, the handler of the Run action
running_mineru ==
    /\ runs < MaxRuns
    /\ runs' = runs + 1
    /\ \E made \in BOOLEAN :
          /\ disk' = IF Truthy(txt_folder_path) /\ made
                     THEN disk \cup {txt_folder_path} ELSE disk
          /\ IF missing # {} \/ not_found(made) # {}
             THEN /\ dialog' = ErrorDialog(missing, not_found(made))
                  /\ UNCHANGED <<page, started, live>>
             ELSE /\ page' = 1
                  /\ started' = started + 1
                  /\ live' = live + 1
                  /\ UNCHANGED dialog
    /\ UNCHANGED <<api_key, pdf_folder_path, md_folder_path, txt_folder_path,
                   limvars, mdvars, dlvars, svars, scivars>>

\* MinerUWorker.run ends: finished_signal or error_signal reaches the window
WorkerEnds ==
    /\ live > 0
    /\ live' = live - 1
    /\ dialog' \in {DoneDialog, ErrorDialog({}, {})}
    /\ UNCHANGED <<api_key, pdf_folder_path, md_folder_path, txt_folder_path,
                   page, started, runs, disk, limvars, mdvars, dlvars, svars,
                   scivars>>

\* A folder is made or removed outside the program.
DiskChanges ==
    /\ \E f \in FolderPaths :
          disk' = IF f \in disk THEN disk \ {f} ELSE disk \cup {f}
    /\ UNCHANGED <<api_key, pdf_folder_path, md_folder_path, txt_folder_path,
                   page, started, live, dialog, runs, limvars, mdvars, dlvars,
                   svars, scivars>>

NextGui == set_up \/ select_folders \/ running_mineru \/ WorkerEnds \/ DiskChanges

(* ---------------------------- specifications --------------------------- *)

Indexes == {<<>>, <<"1">>, <<"/">>, <<"?", "/">>, <<"L">>}

Dois == {EmptyDoi, JunkDoi, Doi(FALSE, 0), Doi(TRUE, 0)}
        \cup {Doi(FALSE, n) : n \in 1..MaxSupp}

Titles == {"", "t"}

Emails == {None, "", "a@x"}

\* The names process_row can write in the output directory.
Names == {FileName(i) : i \in {j \in Indexes : j # <<>> /\ ~TooLong(FileName(j))}}

OldLog == [exists |-> TRUE,
           lines |-> <<HeaderRow,
                       Record(<<"0">>, EmptyDoi, "old", "not_found", "no-pdf")>>]

TitleAnswers == {EmptyDoi, Doi(FALSE, 0), PunctDoi}

IdleStream ==
    /\ sIn = [r |-> CHOOSE r \in Responses : TRUE, before |-> Absent,
              openOk |-> TRUE]
    /\ sOut = [NotCalled EXCEPT !.note = "idle"]

IdleTool ==
    /\ lIn = [tool |-> "none", dir |-> {}, start |-> 0, limit |-> 0, indices |-> <<>>]
    /\ lOut = [state |-> "idle", items |-> <<>>]

IdleMd ==
    /\ mIn = [md_lines |-> <<>>, drop_fig_caps |-> TRUE, drop_refs |-> TRUE]
    /\ mOut = [NotWritten EXCEPT !.state = "idle"]

IdleGui ==
    /\ api_key = None
    /\ pdf_folder_path = ""
    /\ md_folder_path = ""
    /\ txt_folder_path = ""
    /\ page = 0
    /\ started = 0
    /\ live = 0
    /\ dialog = NoDialog
    /\ runs = 0
    /\ disk = {}

IdleAux == IdleTool /\ IdleMd /\ IdleGui

IdleSci ==
    /\ tasks = <<>>
    /\ tpc = [t \in Workers |-> "none"]
    /\ round = [t \in Workers |-> 0]
    /\ mi = [t \in Workers |-> 0]
    /\ visited = [t \in Workers |-> <<>>]
    /\ errCalls = [t \in Workers |-> 0]
    /\ papers = [i \in {"1", "2"} |-> {}]
    /\ lock = 0
    /\ errfile = <<>>

\* download_papers.main as it reaches its email line, for the arguments,
\* sheets, directories, logs and worlds given.
InitMain(cfgs, sheets, dirs, logs, worlds) ==
    /\ cfg \in cfgs
    /\ sheet \in sheets
    /\ slice = <<>>
    /\ files \in dirs
    /\ log \in logs
    /\ world \in worlds
    /\ logInit = log
    /\ email = None
    /\ pos = 0
    /\ pc = "start"
    /\ row = [idx |-> <<>>, doi |-> EmptyDoi, title |-> ""]
    /\ loc = NoLoc
    /\ stk = <<>>
    /\ froot = EmptyDoi
    /\ fres = NoRes
    /\ calls = <<>>
    /\ http = <<>>
    /\ net = FALSE
    /\ pw = 0
    /\ records = <<>>
    /\ rec = HeaderRow
    /\ IdleStream
    /\ IdleSci
    /\ IdleAux

vars == <<dlvars, svars, scivars, auxvars>>

NextMain ==
    \/ Configure
    \/ ProcessRowBegin
    \/ FetchStep
    \/ AfterDoi
    \/ TitleLookup
    \/ AfterTitle
    \/ Resolved
    \/ AfterFirstDownload
    \/ PlaywrightFallback
    \/ LogRow
    \/ Finish

\* Worlds: where every stage of DOI resolution may answer and downloads
\* succeed; where one stage may answer and downloads end every plain way;
\* and two small ones for runs over several rows.
FetchWorld == [yield |-> YieldNotes, hosts |-> Hosts, resp |-> "open",
               titles |-> TitleAnswers, logWrites |-> {TRUE}]

RowWorld == [yield |-> {"crossref-link"}, hosts |-> {"none", "pub"},
             resp |-> "plain", titles |-> TitleAnswers, logWrites |-> {TRUE}]

LoopWorlds ==
    {[yield |-> {"html-parse"}, hosts |-> {"pub"}, resp |-> "paywall",
      titles |-> {EmptyDoi}, logWrites |-> {TRUE}],
     [yield |-> {"openalex"}, hosts |-> {"pub"}, resp |-> "open",
      titles |-> {Doi(FALSE, 0)}, logWrites |-> BOOLEAN]}

SeqsUpTo(S, n) == UNION {[1..k -> S] : k \in 0..n}

NoFiles == [n \in Names |-> Absent]

\* One row, every form of DOI and every way of giving the email.
InitFetchFocus ==
    InitMain([argEmail : Emails, envEmail : Emails, overwrite : {FALSE},
              usePw : {FALSE}, interactive : {FALSE},
              start : {0}, limit : {NoLimit}],
             {<<r>> : r \in [idx : {<<"1">>}, doi : Dois, title : Titles]},
             {NoFiles}, {NoLog}, {FetchWorld})

\* One row, every kind of index, with and without --overwrite and
\* --use-playwright, the file present or not.
InitRowFocus ==
    InitMain([argEmail : {None}, envEmail : {None, "a@x"}, overwrite : BOOLEAN,
              usePw : BOOLEAN, interactive : {FALSE},
              start : {0}, limit : {NoLimit}],
             {<<r>> : r \in [idx : Indexes,
                             doi : {EmptyDoi, JunkDoi, Doi(FALSE, 0)},
                             title : Titles]},
             {NoFiles, [NoFiles EXCEPT ![FileName(<<"1">>)] = OldFile]},
             {NoLog}, {RowWorld})

\* Up to MaxRows rows whose indexes are empty, collide after cleaning or are
\* refused by the file system; the log new or not; the prompt on or off.
InitLoopFocus ==
    InitMain([argEmail : {None}, envEmail : {None}, overwrite : {FALSE},
              usePw : {TRUE}, interactive : BOOLEAN,
              start : {0}, limit : {NoLimit}],
             SeqsUpTo([idx : {<<>>, <<"/">>, <<"?", "/">>, <<"L">>},
                       doi : {Doi(FALSE, 0)}, title : {"t"}], MaxRows),
             {NoFiles}, {NoLog, OldLog}, LoopWorlds)

\* The values of --start and of --limit.
Starts == -1..MaxRows

Limits == {NoLimit} \cup {Limit(n) : n \in -MaxRows..MaxRows}

\* The i-th row of a sheet of rows told apart by their index, with neither
\* DOI nor title.
PlainRow(i) == [idx |-> <<ToString(i)>>, doi |-> EmptyDoi, title |-> ""]

\* A sheet of up to MaxRows such rows under every --start and --limit.
InitSliceFocus ==
    InitMain([argEmail : {None}, envEmail : {None}, overwrite : {FALSE},
              usePw : {FALSE}, interactive : {FALSE},
              start : Starts, limit : Limits],
             {[i \in 1..k |-> PlainRow(i)] : k \in 0..MaxRows},
             {NoFiles}, {NoLog}, {FetchWorld})

Init == InitFetchFocus \/ InitRowFocus \/ InitLoopFocus \/ InitSliceFocus

Spec == Init /\ [][NextMain]_vars

IdleMain ==
    /\ cfg = [argEmail |-> None, envEmail |-> None, overwrite |-> FALSE,
              usePw |-> FALSE, interactive |-> FALSE, start |-> 0,
              limit |-> NoLimit]
    /\ sheet = <<>>
    /\ slice = <<>>
    /\ files = NoFiles
    /\ log = NoLog
    /\ world = FetchWorld
    /\ logInit = log
    /\ email = None
    /\ pos = 0
    /\ pc = "idle"
    /\ row = [idx |-> <<>>, doi |-> EmptyDoi, title |-> ""]
    /\ loc = NoLoc
    /\ stk = <<>>
    /\ froot = EmptyDoi
    /\ fres = NoRes
    /\ calls = <<>>
    /\ http = <<>>
    /\ net = FALSE
    /\ pw = 0
    /\ records = <<>>
    /\ rec = HeaderRow

\* The Sci-Hub script once the sheet is read and the tasks are submitted.
InitSci ==
    /\ \E rows \in SeqsUpTo(SheetRows, MaxTasks) : tasks = dropna(rows)
    /\ tpc = [t \in Workers |-> IF t <= Len(tasks) THEN "queued" ELSE "none"]
    /\ round = [t \in Workers |-> 0]
    /\ mi = [t \in Workers |-> 0]
    /\ visited = [t \in Workers |-> <<>>]
    /\ errCalls = [t \in Workers |-> 0]
    /\ papers = [i \in {"1", "2"} |-> {}]
    /\ lock = 0
    /\ errfile = <<>>
    /\ IdleMain
    /\ IdleStream
    /\ IdleAux

\* Every thread of the pool keeps running: requests time out after 10 s and
\* the sleeps end.
SpecSciHub == InitSci /\ [][NextSci]_vars /\ \A t \in Workers : WF_vars(TaskStep(t))

\* stream_download on its own, for every response and either file.
InitStream ==
    /\ sIn \in [r : Responses, before : {Absent, OldFile}, openOk : BOOLEAN]
    /\ sOut = NotCalled
    /\ IdleMain
    /\ IdleSci
    /\ IdleAux

SpecStream == InitStream /\ [][StreamCall]_vars

\* The most PDFs in the directory the two tools list.
MaxItems == 3

\* Either tool over every directory of up to MaxItems names, every --start
\* and --limit around its size, apply_clean with and without --indices.
InitTool ==
    /\ lIn \in {a \in [tool : {"mineru_cli", "apply_clean"},
                        dir : {1..k : k \in 0..MaxItems},
                        start : -1..MaxItems,
                        limit : -1..MaxItems,
                        indices : {<<>>, <<3, 1, 3>>}] :
                   a.tool = "mineru_cli" => a.indices = <<>>}
    /\ lOut = NotRun
    /\ IdleMain
    /\ IdleStream
    /\ IdleSci
    /\ IdleMd
    /\ IdleGui

SpecTool == InitTool /\ [][ToolRun]_vars

\* The longest list of lines of every kind extract_md is called with.
MaxLines == 4

\* The most text lines ahead of a reference list.
MaxBody == 16

\* readlines(): the kinds in order, "\n" at every end but perhaps the last
MdLines(kinds, last_nl) ==
    [i \in 1..Len(kinds) |->
        [id |-> i, kind |-> kinds[i], nl |-> (i < Len(kinds)) \/ last_nl]]

RECURSIVE Rep(_, _)
Rep(x, n) == IF n = 0 THEN <<>> ELSE x \o Rep(x, n - 1)

\* Documents with a reference list: text lines, then up to two lines of any
\* kind, a run of reference-like lines (apart or not), up to two more lines.
Papers ==
    {Rep(<<"text">>, a) \o mid \o Rep(r, b) \o end :
        a \in 0..MaxBody,
        mid \in SeqsUpTo({"text", "ref"}, 1),
        r \in {<<"ref">>, <<"ref", "blank">>},
        b \in {0, 4, 5, 6},
        end \in SeqsUpTo({"text", "blank", "ref", "title"}, 2)}

\* extract_md on every short list of lines and on every document of Papers,
\* under the environment switches of captions and references.
InitMd ==
    /\ mIn \in [md_lines : {MdLines(k, e) : k \in SeqsUpTo(LineKinds, MaxLines)
                                                  \cup Papers,
                                            e \in BOOLEAN},
                drop_fig_caps : BOOLEAN, drop_refs : BOOLEAN]
    /\ mOut = NotWritten
    /\ IdleMain
    /\ IdleStream
    /\ IdleSci
    /\ IdleTool
    /\ IdleGui

SpecMd == InitMd /\ [][ExtractMd]_vars

\* MinerUMainWindow.__init__: the key of the environment or None, the folders
\* of the environment or the defaults, the MD and output folders made.
InitGui ==
    /\ api_key \in {None, "k"}
    /\ pdf_folder_path \in FolderPaths
    /\ md_folder_path \in FolderPaths
    /\ txt_folder_path \in FolderPaths
    /\ disk \in {s \in SUBSET FolderPaths :
                    md_folder_path \in s /\ txt_folder_path \in s}
    /\ page = 0
    /\ started = 0
    /\ live = 0
    /\ dialog = NoDialog
    /\ runs = 0
    /\ IdleMain
    /\ IdleStream
    /\ IdleSci
    /\ IdleTool
    /\ IdleMd

SpecGui == InitGui /\ [][NextGui]_vars

(* ------------------------------- claims -------------------------------- *)

\* fetch_pdf_via_doi has just returned to process_row.
FetchReturned == pc \in {"pr_after_doi", "pr_after_title"}

\* The order in which the sources are to be consulted.
ClaimedOrder ==
    <<"unpaywall", "crossref-link", "openalex", "doi-head", "doi-get",
      "html-parse", "parent-doi">>

RECURSIVE InClaimedOrder(_)
\* c walks ClaimedOrder from its start, and starts over after each parent-doi
InClaimedOrder(c) ==
    LET n == Min(Len(c), Len(ClaimedOrder))
    IN  /\ SubSeq(c, 1, n) = SubSeq(ClaimedOrder, 1, n)
        /\ Len(c) > n => InClaimedOrder(SubSeq(c, n + 1, Len(c)))

\* The source that gives URLs under a note.
StageOfNote(n) ==
    CASE n \in {"doi-head-pdf", "doi-link-header"} -> "doi-head"
      [] n \in {"doi-get-pdf", "doi-get-link"} -> "doi-get"
      [] OTHER -> n

Parents(c) == Cardinality({i \in 1..Len(c) : c[i] = "parent-doi"})

RECURSIVE ParentTag(_, _)
ParentTag(k, n) == IF k = 0 THEN n ELSE "parent-doi:" \o ParentTag(k - 1, n)

\* C1: when fetch_pdf_via_doi returns, the sources it consulted are a walk of
\* Unpaywall, Crossref, OpenAlex, DOI HEAD, DOI GET, landing HTML and, for a
\* supplementary DOI, the parent DOI (walked the same way); a URL it returns
\* comes from the last source consulted and carries that source's note, so no
\* later source was queried; (None, 'no-pdf-from-doi') comes only after every
\* source, down to the last parent, was consulted.
C1_SourcesInOrder ==
    FetchReturned =>
      /\ InClaimedOrder(calls)
      /\ \A i \in 1..Len(http) : \E j \in 1..Len(calls) : calls[j] = http[i]
      /\ fres.url # NoUrl =>
           /\ calls # <<>>
           /\ calls[Len(calls)] = StageOfNote(fres.url.src)
           /\ fres.note = ParentTag(Parents(calls), fres.url.src)
      /\ fres.url = NoUrl =>
           /\ fres.note \in {"no-pdf-from-doi", "empty-doi"}
           /\ fres.note = "empty-doi" <=> normalize_doi(froot) = EmptyDoi
           /\ fres.note = "empty-doi" => calls = <<>> /\ http = <<>>
           /\ fres.note = "no-pdf-from-doi" =>
                Len(calls) = Len(ClaimedOrder) * normalize_doi(froot).supp
                             + Len(ClaimedOrder) - 1

\* The parent of a supplementary DOI gave the URL, at the landing page.
C1_Witness ==
    /\ pc = "pr_after_doi"
    /\ IsSupplementary(froot)
    /\ fres.note = "parent-doi:html-parse"
    /\ Len(calls) = 2 * Len(ClaimedOrder) - 1

\* A lookup by title has been made for the current row.
TitleLookedUp == loc.looked

\* C3: the DOI of the row comes first: once past DOI resolution, a usable DOI
\* has been resolved before anything else; the Crossref lookup by title has
\* been made only for a non-empty title, and only if the row has no usable
\* DOI or the resolution of its DOI returned no URL.
C3_DoiBeforeTitle ==
    /\ pc \in {"pr_title", "pr_resolved", "pr_dl1_done", "pr_pw"}
         /\ UsableDoi(row.doi) => froot # EmptyDoi
    /\ pc = "pr_title" /\ UsableDoi(row.doi) =>
         froot = row.doi /\ ~TitleLookedUp
    /\ TitleLookedUp =>
         /\ row.title # ""
         /\ ~UsableDoi(row.doi) \/ loc.doi_res = NoUrl

\* The DOI resolved to nothing and the title was looked up.
C3_Witness ==
    /\ pc = "pr_after_title"
    /\ UsableDoi(row.doi)
    /\ loc.doi_res = NoUrl
    /\ TitleLookedUp
    /\ fres.url # NoUrl

\* C10: the address used is --email when one is given, else UNPAYWALL_EMAIL;
\* without an address no request goes to Unpaywall and the first request of
\* DOI resolution goes to Crossref.
C10_NoEmailNoUnpaywall ==
    pc # "start" =>
      /\ email = IF Truthy(cfg.argEmail) THEN cfg.argEmail ELSE cfg.envEmail
      /\ ~Truthy(email) =>
           /\ \A i \in 1..Len(http) : http[i] # "unpaywall"
           /\ http # <<>> => http[1] = "crossref-link"
           /\ pc = "crossref-link" /\ Len(stk) = 1 => http = <<>>

\* No address anywhere: Unpaywall was passed over and Crossref was asked.
C10_Witness ==
    /\ ~Truthy(cfg.argEmail)
    /\ ~Truthy(cfg.envEmail)
    /\ Len(calls) >= 2
    /\ calls[1] = "unpaywall"
    /\ http # <<>>
    /\ http[1] = "crossref-link"

\* What the claim counts as a PDF indicator of response r.
PdfIndicated(r) ==
    \/ r.ctPdf
    \/ r.magic >= 0 /\ r.magic + MagicLen <= HeadBytes /\ r.magic + MagicLen <= r.first

\* The request and the read of the first chunk went through.
Answered(r) == r.err \notin {"connect", "read1"}

\* C2: stream_download leaves out_path as it was unless Content-Type holds
\* application/pdf or "%PDF-" lies within the first 1024 bytes of the first
\* non-empty chunk; a status >= 400, an empty body, or a body with neither
\* indicator gives (False, 'http-<code>' / 'empty-file' / 'not-pdf') with
\* out_path untouched.
C2_WritesOnlyPdf ==
    sOut.note \notin {"not-called", "idle"} =>
      LET r == sIn.r
          refused(note) == sOut = [ok |-> FALSE, note |-> note, file |-> sIn.before]
      IN  /\ sOut.file # sIn.before => PdfIndicated(r) /\ r.status < 400
          /\ r.err # "connect" /\ r.status >= 400 =>
               refused("http-" \o ToString(r.status))
          /\ Answered(r) /\ r.status < 400 /\ r.first = 0 => refused("empty-file")
          /\ Answered(r) /\ r.status < 400 /\ r.first > 0 /\ ~PdfIndicated(r) =>
               refused("not-pdf")

\* "%PDF-" lies in the first chunk but past its first 1024 bytes, and the
\* file that was there is kept.
C2_Witness ==
    /\ sOut.note = "not-pdf"
    /\ sIn.before = OldFile
    /\ sOut.file = OldFile
    /\ sIn.r.magic + MagicLen > HeadBytes
    /\ sIn.r.lead > 0

\* C4: the row whose file is there, without --overwrite, is answered 'exists'
\* at once: no HTTP request, no browser, the output directory as it was; the
\* row with an empty index is answered 'no_index' the same way.
C4_SkipsWithoutWork ==
    [][pc = "loop" /\ pos < Len(slice) =>
         LET r == slice[pos + 1]
             untouched == /\ pc' = "log"
                          /\ ~net'
                          /\ http' = <<>>
                          /\ pw' = 0
                          /\ files' = files
                          /\ log' = log
             present == r.idx # <<>> /\ FileAt(FileName(r.idx)).exists
         IN  /\ r.idx = <<>> => untouched /\ rec'.status = "no_index"
             /\ present /\ ~cfg.overwrite => untouched /\ rec'.status = "exists"
             /\ pc' = "log" /\ rec'.status = "exists" => present /\ ~cfg.overwrite]_vars

\* A second row whose index cleans to the name the first row downloaded to.
C4_Witness ==
    /\ pc = "log"
    /\ rec.status = "exists"
    /\ pos = 1
    /\ slice[1].idx # slice[2].idx
    /\ ~net

\* The lines this run added to the log, without the header it may have written.
RunRecords ==
    LET new == SubSeq(log.lines, Len(logInit.lines) + 1, Len(log.lines))
    IN  IF ~logInit.exists /\ new # <<>> THEN Tail(new) ELSE new

RECURSIVE IsSubSeq(_, _)
\* a can be had from b by leaving elements out
IsSubSeq(a, b) ==
    IF a = <<>> THEN TRUE
    ELSE IF b = <<>> THEN FALSE
    ELSE IF Head(a) = Head(b) THEN IsSubSeq(Tail(a), Tail(b))
    ELSE IsSubSeq(a, Tail(b))

\* C5 as stated: the log holds exactly one record per row main is done with,
\* in sheet order.
C5_OneRecordPerRow ==
    /\ Len(RunRecords) = pos
    /\ \A i \in 1..Len(RunRecords) : RunRecords[i].index = slice[i].idx

\* C5: main's records list holds exactly one record per row it is done with,
\* in sheet order, a row whose process_row raised included (status 'error');
\* the log holds, in that order, the records whose append went through, all
\* of them when no append fails, and what was in the log before is kept.
C5_OneRecordPerLoggedRow ==
    /\ Len(records) = pos
    /\ \A i \in 1..pos : records[i].index = slice[i].idx
    /\ IsSubSeq(RunRecords, records)
    /\ world.logWrites = {TRUE} => RunRecords = records
    /\ SubSeq(log.lines, 1, Len(logInit.lines)) = logInit.lines
    /\ pc = "log" /\ rec.notes = "exception:OSError" => rec.status = "error"

\* An append failed after one that went through and a row raised.
C5_Witness ==
    /\ pc = "done"
    /\ pos = 2
    /\ Len(RunRecords) = 1
    /\ records[1].notes = "exception:OSError"
    /\ RunRecords[1] = records[1]

\* C9 as stated: a row whose URL was resolved and that ends in 'error' has
\* been handed to the browser fallback exactly once when --use-playwright is
\* given, and never without it.
C9_PlaywrightBeforeError ==
    /\ pw <= 1
    /\ ~cfg.usePw => pw = 0
    /\ pc = "log" /\ loc.tries >= 1 /\ rec.status = "error" /\ cfg.usePw => pw = 1

\* The tasks that have opened the file of index i for writing.
WritersOf(i) == papers[i]

\* C6 as stated: no two tasks of the pool write the same papers/<index>.pdf.
C6_DistinctPaths ==
    \A t, u \in Submitted :
        t # u /\ t \in WritersOf(PaperOf(t)) /\ u \in WritersOf(PaperOf(u))
          => PaperOf(t) # PaperOf(u)

\* The tasks inside log_error's "with lock".
InLogError == {t \in Submitted : tpc[t] \in {"cs", "cs_written"}}

\* C7: at most one task is inside log_error's locked block, and it holds the
\* lock; every line of the error file is the whole record of one task that
\* failed, one line per task that has written.
C7_LogErrorExclusive ==
    /\ Cardinality(InLogError) <= 1
    /\ \A t \in InLogError : lock = t
    /\ InLogError = {} => lock = 0
    /\ Len(errfile) = Cardinality({t \in Submitted : tpc[t] \in {"cs_written", "logged"}})
    /\ \A i \in 1..Len(errfile) :
         \E t \in Submitted :
           /\ tpc[t] \in {"cs_written", "logged"}
           /\ errfile[i] = [index |-> tasks[t].index, doi |-> tasks[t].doi]

\* One task is writing its line while another waits for the lock.
C7_Witness ==
    \E t, u \in Submitted :
        /\ tpc[t] = "cs"
        /\ tpc[u] = "failed"
        /\ Len(errfile) = 0

\* What holds of every download_paper call at every moment.
C8_Bounded ==
    \A t \in Submitted :
        /\ Len(visited[t]) <= Retries * NumMirrors
        /\ \A k \in 1..Len(visited[t]) : visited[t][k] = ((k - 1) % NumMirrors) + 1
        /\ errCalls[t] <= 1
        /\ tpc[t] = "ok" => errCalls[t] = 0 /\ t \in WritersOf(PaperOf(t))
        /\ tpc[t] \in {"failed", "cs", "cs_written", "logged"} =>
             errCalls[t] = 1 /\ Len(visited[t]) = Retries * NumMirrors
        /\ tpc[t] \in Ended => (tpc[t] = "ok") # (errCalls[t] = 1)

RowsAt(df, lo, hi) ==
    LET a == Max(lo, 0)
        b == Min(hi, Len(df) - 1)
    IN  IF a <= b THEN SubSeq(df, a + 1, b + 1) ELSE <<>>

\* The rows the claim has main process.
ClaimedSlice ==
    LET start == Max(cfg.start, 0)
    IN  IF cfg.limit.given
        THEN RowsAt(sheet, start, start + cfg.limit.n - 1)
        ELSE RowsAt(sheet, start, Len(sheet) - 1)

\* C11 as stated: main walks exactly the rows at positions start ..
\* start+limit-1 of the sheet that exist (a negative --start counting as 0,
\* no --limit meaning every row from start), so at most --limit rows, and
\* has one record for each of them, in sheet order, when it is done.
C11_SliceAsClaimed ==
    pc \notin {"start", "idle"} =>
      /\ slice = ClaimedSlice
      /\ cfg.limit.given => Len(slice) <= Max(cfg.limit.n, 0)
      /\ pc = "done" /\ ~cfg.interactive =>
           /\ Len(records) = Len(ClaimedSlice)
           /\ \A i \in 1..Len(records) : records[i].index = ClaimedSlice[i].idx

Range(s) == {s[i] : i \in 1..Len(s)}

\* C13 as stated: the .md file keeps the paragraphs. Every item written ends
\* with "\n"; two kept non-blank lines with one or more blank lines, and
\* nothing else, between them in md_lines are in the file with exactly one
\* blank line between them; the file neither starts nor ends with a blank
\* line.
C13_ParagraphsKept ==
    mOut.state = "written" =>
      LET rows == mOut.md.rows
          src == mIn.md_lines
          out == mOut.lines
          kept == {out[i].id : i \in {k \in 1..Len(out) : ~is_blank(out[k])}}
      IN  /\ \A i \in 1..Len(out) : out[i].nl
          /\ mOut.md.rest = <<>>
          /\ rows # <<>> => rows[1] # <<>> /\ rows[Len(rows)] # <<>>
          /\ \A x, y \in kept :
               /\ x + 1 < y
               /\ \A k \in x + 1..y - 1 : src[k].kind = "blank"
               => \E r \in 1..Len(rows) :
                     /\ r + 2 <= Len(rows)
                     /\ rows[r] = <<x>>
                     /\ rows[r + 1] = <<>>
                     /\ rows[r + 2] = <<y>>

\* The place (from 0) of a line in the lines the reference removal received.
PlaceOf(l) == CHOOSE p \in 0..Len(mOut.received) - 1 : At(mOut.received, p) = l

\* C15: the reference removal removes no line before place floor(n/2) of the
\* n lines it receives; the lines it keeps and removed_refs hold every line
\* it received exactly once between them, each group in the order received;
\* and with MINERU_DROP_REFS at '0' it removes nothing.
C15_RefsLateAndLossless ==
    mOut.state = "written" =>
      LET got == mOut.received
          n == Len(got)
          kept == mOut.lines
          gone == mOut.removed_refs
          both == kept \o gone
      IN  /\ \A i \in 1..Len(gone) : PlaceOf(gone[i]) >= n \div 2
          /\ Len(both) = n
          /\ \A p \in 1..n : Cardinality({q \in 1..n : both[q] = got[p]}) = 1
          /\ IsSubSeq(kept, got)
          /\ IsSubSeq(gone, got)
          /\ ~mIn.drop_refs => gone = <<>> /\ kept = got

\* A block of reference-like lines went from the second half of a document
\* and a later line stayed.
C15_Witness ==
    /\ mOut.state = "written"
    /\ Len(mOut.removed_refs) >= 5
    /\ title_cut(mOut.received) = NoCut
    /\ \E i \in 1..Len(mOut.lines) :
          PlaceOf(mOut.lines[i]) > PlaceOf(mOut.removed_refs[1])

\* What the claim requires before a worker starts.
RunReady ==
    /\ Truthy(api_key)
    /\ pdf_folder_path # "" /\ md_folder_path # "" /\ txt_folder_path # ""
    /\ pdf_folder_path \in disk
    /\ md_folder_path \in disk

\* C14: the Run action starts a MinerUWorker only if an API key is set, the
\* three folder paths are non-empty and the PDF and MD folders exist;
\* otherwise it shows an Error dialog naming what is missing, stays on the
\* page it is on and starts no worker; and a Run that starts no worker
\* always shows an Error dialog.
C14_RunGuarded ==
    [][runs' # runs =>
         /\ started' # started => RunReady
         /\ started' # started => page' = 1 /\ started' = started + 1
         /\ started' = started => dialog'.state = "Error" /\ page' = page
         /\ ~RunReady =>
              /\ started' = started
              /\ page' = page
              /\ dialog'.state = "Error"
              /\ ~Truthy(api_key) => "API Key" \in dialog'.missing
              /\ pdf_folder_path = "" => "PDF Folder" \in dialog'.missing
              /\ md_folder_path = "" => "MD Folder" \in dialog'.missing
              /\ txt_folder_path = "" => "Output Folder" \in dialog'.missing
              /\ pdf_folder_path # "" /\ pdf_folder_path \notin disk
                   => "PDF" \in dialog'.not_found
              /\ md_folder_path # "" /\ md_folder_path \notin disk
                   => "MD" \in dialog'.not_found]_vars

\* Two Run actions: one started a worker, the other found the PDF folder
\* gone and said so.
C14_Witness ==
    /\ runs = 2
    /\ started = 1
    /\ page = 1
    /\ dialog.state = "Error"
    /\ "PDF" \in dialog.not_found

====
